---- MODULE Spec2Model ----
(***************************************************************************)
(* A model of schedule_notifier.py: the ScheduleNotifier class.            *)
(*                                                                         *)
(* Text is modelled as a sequence of symbols: a symbol is a word ("Fabio", *)
(* "Week starting"), a comma "," or a blank " ".  A table line is its      *)
(* indentation, its first visible character and its cells (the text        *)
(* between the column separators).  A cell whose text has the shape        *)
(* <letters> <digits>, <digits> carries the three tokens in tok.           *)
(* A datetime is [ord, hour]: the proleptic Gregorian ordinal of its date  *)
(* and its time of day in whole hours.                                     *)
(***************************************************************************)
EXTENDS Integers, Sequences, FiniteSets, TLC

\* ------------------------------------------------------------------ bounds

\* The longest inline source text (schedule_content), in lines.
MaxLines == 3
\* The longest schedule file, in lines.
MaxFileLines == 2
\* Target dates lie within this many days of the schedule's first week_start.
MaxOff == 8
\* Periods (cycle_length * 7 days) a target date is shifted by, each way.
MaxK == 2

\* ------------------------------------------------------------- text helpers

None == [none |-> TRUE]

Blank == " "
Comma == ","
\* The first visible character of a line: the box-drawing tee U+251C that
\* starts a separator line, the ASCII bar that starts a row, the box-drawing
\* corner U+2514 of a bottom border.
Tee == "U+251C"
Bar == "|"
Corner == "U+2514"

RECURSIVE lstrip(_)
lstrip(s) ==
  IF s # <<>> /\ Head(s) = Blank THEN lstrip(Tail(s)) ELSE s

RECURSIVE rstrip(_)
rstrip(s) ==
  IF s # <<>> /\ s[Len(s)] = Blank THEN rstrip(SubSeq(s, 1, Len(s) - 1)) ELSE s

\* str.strip()
strip(s) == lstrip(rstrip(s))

\* str.split(','): the pieces between the commas, empty pieces included.
RECURSIVE split(_)
split(s) ==
  IF \A i \in 1..Len(s) : s[i] # Comma
  THEN <<s>>
  ELSE LET i == CHOOSE j \in 1..Len(s) :
                  s[j] = Comma /\ \A k \in 1..(j - 1) : s[k] # Comma
       IN  <<SubSeq(s, 1, i - 1)>> \o split(SubSeq(s, i + 1, Len(s)))

\* Mutant: the empty names filtered out.
people_list_nonempty(column) ==
  LET parts == split(column)
      NonEmpty(part) == strip(part) # <<>>
      kept == SelectSeq(parts, NonEmpty)
  IN  [i \in 1..Len(kept) |-> strip(kept[i])]

\* [name.strip() for name in column.split(',')]
people_list(column) ==
  LET parts == split(column)
  IN  [i \in 1..Len(parts) |-> strip(parts[i])]

\* ------------------------------------------------------------------- dates

\* %b: the abbreviated month names (0: not one).
MonthNumber(mon) ==
  CASE mon = "Jan" -> 1  [] mon = "Feb" -> 2  [] mon = "Mar" -> 3
    [] mon = "Apr" -> 4  [] mon = "May" -> 5  [] mon = "Jun" -> 6
    [] mon = "Jul" -> 7  [] mon = "Aug" -> 8  [] mon = "Sep" -> 9
    [] mon = "Oct" -> 10 [] mon = "Nov" -> 11 [] mon = "Dec" -> 12
    [] OTHER -> 0

IsLeap(y) == y % 4 = 0 /\ (y % 100 # 0 \/ y % 400 = 0)

DaysInMonth(y, m) ==
  CASE m \in {1, 3, 5, 7, 8, 10, 12} -> 31
    [] m \in {4, 6, 9, 11} -> 30
    [] OTHER -> IF IsLeap(y) THEN 29 ELSE 28

RECURSIVE DaysBeforeMonth(_, _)
DaysBeforeMonth(y, m) ==
  IF m = 1 THEN 0 ELSE DaysBeforeMonth(y, m - 1) + DaysInMonth(y, m - 1)

DaysBeforeYear(y) ==
  (y - 1) * 365 + ((y - 1) \div 4) - ((y - 1) \div 100) + ((y - 1) \div 400)

\* date.toordinal()
ToOrdinal(y, m, d) == DaysBeforeYear(y) + DaysBeforeMonth(y, m) + d

\* datetime.strptime(date_str, "%b %d, %Y"): the datetime at midnight, or
\* None where strptime raises ValueError.  tok is <<month, day, year>>, the
\* numbers written without leading zeros.
strptime(tok) ==
  LET m == MonthNumber(tok[1])
      d == tok[2]
      y == tok[3]
  IN  IF m = 0 \/ y < 1000 \/ y > 9999 THEN None
      ELSE IF d < 1 \/ d > DaysInMonth(y, m) THEN None
      ELSE [ord |-> ToOrdinal(y, m, d), hour |-> 0]

\* A datetime as hours since the start of ordinal 0.
Hours(dt) == dt.ord * 24 + dt.hour

\* Mutant: the difference in days truncated toward zero.
timedelta_days_truncated(a, b) ==
  LET h == Hours(a) - Hours(b)
  IN  IF h < 0 THEN 0 - ((0 - h) \div 24) ELSE h \div 24

\* Mutant: the difference in days rounded to the nearest day.
timedelta_days_rounded(a, b) == (Hours(a) - Hours(b) + 12) \div 24

\* (a - b).days: a timedelta is normalised to 0 <= seconds < 86400, so its
\* days field is the floor of the difference in days.
timedelta_days(a, b) == (Hours(a) - Hours(b)) \div 24

\* ------------------------------------------------------------- table lines

\* line.strip().startswith(c)
strip_startswith(line, c) == line.lead = c

\* 'Week starting' in line
has_week_starting(line) ==
  \E i \in 1..Len(line.cells) :
    \E j \in 1..Len(line.cells[i].chars) : line.cells[i].chars[j] = "Week starting"

\* re.match(r'\|\s*([A-Za-z]+\s+\d+,\s+\d+)\s*\|\s*([^|]+)\s*\|\s*([^|]+)\s*\|', line):
\* the line starts, unindented, with '|'; its first cell is date-shaped; two
\* more non-empty cells follow, each closed by '|'.
regex_match(line) ==
  /\ ~line.indent
  /\ line.lead = Bar
  /\ Len(line.cells) >= 3
  /\ line.cells[1].tok # <<>>
  /\ line.cells[2].chars # <<>>
  /\ line.cells[3].chars # <<>>

\* The first test of _parse_schedule_line: separator lines and the header.
is_separator_or_header(line) ==
  \/ strip_startswith(line, Tee)
  \/ (strip_startswith(line, Bar) /\ has_week_starting(line))

\* Mutant: a lenient date parser, which rolls a day past the month's end over
\* into the next month instead of raising.
parse_week_date_lenient(tok) ==
  LET m == MonthNumber(tok[1])
  IN  IF m = 0 \/ tok[3] < 1000 \/ tok[3] > 9999 \/ tok[2] < 1 THEN None
      ELSE [ord |-> ToOrdinal(tok[3], m, tok[2]), hour |-> 0]

\* The date of a matched line (the try/except around strptime).
parse_week_date(tok) == strptime(tok)

\* ScheduleNotifier._parse_schedule_line: the tuple (week_date,
\* release_artistry, focused_work) as a record, or None.
parse_schedule_line(line) ==
  IF is_separator_or_header(line) THEN None
  ELSE IF ~regex_match(line) THEN None
  ELSE LET week_date == parse_week_date(line.cells[1].tok)
       IN  IF week_date = None THEN None
           ELSE [week_start |-> week_date,
                 release_artistry |-> people_list(strip(line.cells[2].chars)),
                 focused_work |-> people_list(strip(line.cells[3].chars))]

\* ------------------------------------------------------------ _load_schedule

\* The lines _load_schedule reads, or the error it raises before reading:
\* schedule_content when it is truthy, else the file's lines.
read_lines(content, file) ==
  IF content # <<>> THEN [error |-> "", lines |-> content]
  ELSE IF file # None
       THEN IF ~file.exists
            THEN [error |-> "FileNotFoundError", lines |-> <<>>]
            ELSE [error |-> "", lines |-> file.lines]
       ELSE [error |-> "ValueError: Either schedule_file or schedule_content must be provided",
             lines |-> <<>>]

\* for line in lines: parsed = _parse_schedule_line(line); if parsed: append
RECURSIVE parse_lines(_)
parse_lines(lines) ==
  IF lines = <<>> THEN <<>>
  ELSE LET parsed == parse_schedule_line(Head(lines))
       IN  (IF parsed # None THEN <<parsed>> ELSE <<>>) \o parse_lines(Tail(lines))

\* key=lambda x: x[0], compared as datetimes
sort_key(entry) == Hours(entry.week_start)

\* Mutant: an unstable insertion, before the elements of equal key.
RECURSIVE insert_sorted_unstable(_, _)
insert_sorted_unstable(s, e) ==
  IF s = <<>> THEN <<e>>
  ELSE IF sort_key(Head(s)) < sort_key(e)
       THEN <<Head(s)>> \o insert_sorted_unstable(Tail(s), e)
       ELSE <<e>> \o s

\* Where a stable sort puts e into the sorted sequence s: after every element
\* whose key is not greater.
RECURSIVE insert_sorted(_, _)
insert_sorted(s, e) ==
  IF s = <<>> THEN <<e>>
  ELSE IF sort_key(Head(s)) <= sort_key(e)
       THEN <<Head(s)>> \o insert_sorted(Tail(s), e)
       ELSE <<e>> \o s

\* sorted(schedule, key=lambda x: x[0]): Python's sort is stable.
RECURSIVE sorted(_)
sorted(s) ==
  IF s = <<>> THEN <<>>
  ELSE insert_sorted(sorted(SubSeq(s, 1, Len(s) - 1)), s[Len(s)])

\* Mutant: no "if not self.schedule: raise ValueError".
load_schedule_unguarded(content, file) ==
  LET src == read_lines(content, file)
  IN  IF src.error # "" THEN [error |-> src.error, schedule |-> <<>>]
      ELSE [error |-> "", schedule |-> sorted(parse_lines(src.lines))]

\* ScheduleNotifier._load_schedule: the schedule, or the error raised.
load_schedule(content, file) ==
  LET src == read_lines(content, file)
      entries == parse_lines(src.lines)
  IN  IF src.error # "" THEN [error |-> src.error, schedule |-> <<>>]
      ELSE IF entries = <<>>
           THEN [error |-> "ValueError: No valid schedule entries found",
                 schedule |-> <<>>]
           ELSE [error |-> "", schedule |-> sorted(entries)]

\* ------------------------------------------------------------ the resolver

\* Mutant: days_diff / 7 truncated toward zero.
truncdiv7(days_diff) ==
  IF days_diff < 0 THEN 0 - ((0 - days_diff) \div 7) ELSE days_diff \div 7

\* days_diff // 7
floordiv7(days_diff) == days_diff \div 7

\* Mutant: a remainder made non-negative by dropping the sign of weeks_diff.
calculate_week_in_cycle_reflected(schedule_start, target_date, cycle_length) ==
  LET weeks_diff == floordiv7(timedelta_days(target_date, schedule_start))
  IN  (IF weeks_diff < 0 THEN 0 - weeks_diff ELSE weeks_diff) % cycle_length

\* Mutant: the week counted from one.
calculate_week_in_cycle_one_based(schedule_start, target_date, cycle_length) ==
  (floordiv7(timedelta_days(target_date, schedule_start)) + 1) % cycle_length

\* ScheduleNotifier._calculate_week_in_cycle: Python's // floors and its %
\* takes the sign of the divisor, as \div and % do here.
calculate_week_in_cycle(schedule_start, target_date, cycle_length) ==
  LET days_diff == timedelta_days(target_date, schedule_start)
      weeks_diff == floordiv7(days_diff)
  IN  weeks_diff % cycle_length

\* Mutant: the two role keys exchanged.
get_schedule_for_date_swapped(sched, target) ==
  LET week_index ==
        calculate_week_in_cycle(sched[1].week_start, target, Len(sched))
  IN  [release_artistry |-> sched[week_index + 1].focused_work,
       focused_work |-> sched[week_index + 1].release_artistry]

\* ScheduleNotifier.get_schedule_for_date (sched is self.schedule, whose
\* Python index i is sched[i + 1] here).
get_schedule_for_date(sched, target) ==
  IF sched = <<>> THEN [error |-> "ValueError: No schedule data available"]
  ELSE LET schedule_start == sched[1].week_start
           cycle_length == Len(sched)
           week_index == calculate_week_in_cycle(schedule_start, target, cycle_length)
       IN  [release_artistry |-> sched[week_index + 1].release_artistry,
            focused_work |-> sched[week_index + 1].focused_work]

\* ------------------------------------------------------- the Slack methods

\* json.loads(mapping_str), caught: the mapping, or {} on a JSONDecodeError.
\* An unset or empty variable leaves the constructor's {}.
load_slack_user_mapping(mapping_env) ==
  IF ~mapping_env.set THEN <<>>
  ELSE IF mapping_env.json_ok THEN mapping_env.obj ELSE <<>>

\* ScheduleNotifier._format_people_list: a mention per name.
format_people_list(mapping, people) ==
  [i \in 1..Len(people) |->
     IF people[i] \in DOMAIN mapping
     THEN [mention |-> mapping[people[i]], fallback |-> <<>>]
     ELSE [mention |-> "", fallback |-> people[i]]]

\* ScheduleNotifier._get_managed_user_ids
get_managed_user_ids(mapping) == {mapping[n] : n \in DOMAIN mapping}

\* The loop of _update_user_group that collects release_artistry_ids.
release_artistry_ids(mapping, names) ==
  {mapping[names[i]] : i \in {j \in 1..Len(names) : names[j] \in DOMAIN mapping}}

\* Mutant: the managed members are not taken out.
preserved_members_all(current_members, mapping) == current_members

\* preserved_members = current_members - managed_user_ids
preserved_members(current_members, mapping) ==
  current_members \ get_managed_user_ids(mapping)

\* new_members = preserved_members | release_artistry_ids
new_members(current_members, mapping, names) ==
  preserved_members(current_members, mapping) \cup release_artistry_ids(mapping, names)

\* Mutant: no "if self.dry_run: ... return" in _update_user_group.
update_returns_early_always_live(dry, current_members, members) ==
  current_members = members

\* _update_user_group returns before the update call: in dry-run mode, and
\* when the group is already up to date.
update_returns_early(dry, current_members, members) ==
  dry \/ current_members = members

\* ---------------------------------------------------------------- inputs

TextCell(chars) == [tok |-> <<>>, chars |-> chars]
\* A date-shaped cell; "#" stands for a run of digits.
DateCell(mon, day, year) ==
  [tok |-> <<mon, day, year>>, chars |-> <<mon, Blank, "#", Comma, Blank, "#">>]

Fabio == <<"Fabio">>
Luis == <<"Luis">>
Joep == <<"Joep">>

\* "Fabio, Luis  " and "Joep ": the cell text up to the closing bar.
ColA == <<"Fabio", Comma, Blank, "Luis", Blank, Blank>>
ColB == <<"Joep", Blank>>
\* "Luis,, Fabio, ": an empty piece between two commas and one after the last.
ColC == <<"Luis", Comma, Comma, Blank, "Fabio", Comma, Blank>>

Row(mon, day, year, ra, fw) ==
  [indent |-> FALSE, lead |-> Bar,
   cells |-> <<DateCell(mon, day, year), TextCell(ra), TextCell(fw)>>]

Separator == [indent |-> FALSE, lead |-> Tee, cells |-> <<>>]
BottomBorder == [indent |-> FALSE, lead |-> Corner, cells |-> <<>>]
Header ==
  [indent |-> FALSE, lead |-> Bar,
   cells |-> <<TextCell(<<"Week starting", Blank>>),
               TextCell(<<"Release artistry (3)", Blank>>),
               TextCell(<<"Focused work (2)", Blank>>)>>]
RowFeb9 == Row("Feb", 9, 2026, ColA, ColB)
RowFeb16 == Row("Feb", 16, 2026, ColB, ColA)
RowMar2 == Row("Mar", 2, 2026, ColC, ColB)
\* The date of RowFeb9 again, with the other team.
RowFeb9Again == Row("Feb", 9, 2026, ColB, ColA)
\* A row whose date token is no calendar date.
RowFeb30 == Row("Feb", 30, 2026, ColA, ColB)
\* A row behind leading blanks, as in the module docstring's sample.
RowIndented == [RowFeb16 EXCEPT !.indent = TRUE]

DataRows == {RowFeb9, RowFeb16, RowMar2, RowFeb9Again}
Decorations == {Separator, BottomBorder, Header}
LineSet == DataRows \cup Decorations \cup {RowFeb30, RowIndented}

TextsUpTo(max) == UNION {[1..n -> LineSet] : n \in 0..max}

\* The constructor's (schedule_content, schedule_file) arguments.
Sources ==
  {[content |-> t, file |-> None] : t \in TextsUpTo(MaxLines)}
    \cup {[content |-> <<>>, file |-> [exists |-> TRUE, lines |-> t]] :
            t \in TextsUpTo(MaxFileLines)}
    \cup {[content |-> <<>>, file |-> [exists |-> FALSE, lines |-> <<>>]]}

\* The module docstring's sample table, cut to two weeks.
SampleTable ==
  <<Separator, Header, Separator, RowFeb9, Separator, RowFeb16, Separator>>

TargetHours == {0, 13}

UnsetEnv ==
  [SLACK_TOKEN |-> "", SLACK_CHANNEL |-> "",
   SLACK_USER_MAPPING |-> [set |-> FALSE, json_ok |-> FALSE, obj |-> <<>>],
   SLACK_USER_GROUP_ID |-> ""]

\* Fabio and Luis are managed; Joep has no Slack ID.
MappingTwo == (Fabio :> "U1") @@ (Luis :> "U2")
\* Two names of one user.
MappingShared == (Fabio :> "U1") @@ (Luis :> "U2") @@ (Joep :> "U2")

MappingEnvs ==
  {[set |-> FALSE, json_ok |-> FALSE, obj |-> <<>>],
   [set |-> TRUE, json_ok |-> FALSE, obj |-> <<>>],
   [set |-> TRUE, json_ok |-> TRUE, obj |-> MappingTwo],
   [set |-> TRUE, json_ok |-> TRUE, obj |-> MappingShared]}

Envs ==
  [SLACK_TOKEN : {"", "xoxb"}, SLACK_CHANNEL : {"", "#art-release"},
   SLACK_USER_MAPPING : MappingEnvs, SLACK_USER_GROUP_ID : {"", "SQ2NYLU56"}]

\* U9 is a member nobody's name maps to.
UserIds == {"U1", "U2", "U9"}

\* ----------------------------------------------------------------- state

NoClient == "None"
NoAttr == "<no attribute>"

VARIABLES
  pc,                  \* "new", "ready" (constructed) or "failed" (the constructor raised)
  source,              \* the constructor's schedule_content and schedule_file
  dry_run,             \* self.dry_run
  env,                 \* os.environ
  schedule,            \* self.schedule
  slack_user_mapping,  \* self.slack_user_mapping
  slack_user_group_id, \* self.slack_user_group_id
  slack_client,        \* self.slack_client: NoClient (None) or "WebClient"
  slack_channel,       \* self.slack_channel: NoAttr while the attribute is unset
  target_date,         \* main's target_date: the last date asked for
  schedule_data,       \* main's schedule_data: the last get_schedule_for_date result
  raised,              \* the exception the last call raised ("" when it returned)
  group,               \* Slack's side: the members of the user group
  logged,              \* the kinds of message logged so far
  slack_calls,         \* Slack's side: the Web API methods called so far
  posted,              \* Slack's side: the last chat_postMessage request
  update_req           \* Slack's side: the last usergroups_users_update request

vars ==
  <<pc, source, dry_run, env, schedule, slack_user_mapping, slack_user_group_id,
    slack_client, slack_channel, target_date, schedule_data, raised, logged,
    group, slack_calls, posted, update_req>>

object_vars ==
  <<schedule, slack_user_mapping, slack_user_group_id, slack_client, slack_channel>>
slack_vars == <<group, slack_calls, posted, update_req>>
input_vars == <<source, dry_run, env>>

\* The attributes __init__ sets before it loads anything.
InitObject ==
  /\ pc = "new"
  /\ schedule = <<>>
  /\ slack_user_mapping = <<>>
  /\ slack_user_group_id = ""
  /\ slack_client = NoClient
  /\ slack_channel = NoAttr
  /\ target_date = None
  /\ schedule_data = None
  /\ raised = ""
  /\ logged = {}
  /\ slack_calls = {}
  /\ posted = None
  /\ update_req = None

\* Any source text, no Slack configuration.
Init ==
  /\ InitObject
  /\ source \in Sources
  /\ dry_run = FALSE
  /\ env = UnsetEnv
  /\ group = {}

\* The sample table, any Slack configuration and any user group.
InitSlack ==
  /\ InitObject
  /\ source = [content |-> SampleTable, file |-> None]
  /\ dry_run \in BOOLEAN
  /\ env \in Envs
  /\ group \in SUBSET UserIds

\* ScheduleNotifier.__init__: _load_schedule, _load_slack_user_mapping,
\* _load_slack_user_group_id.
Construct ==
  /\ pc = "new"
  /\ LET loaded == load_schedule(source.content, source.file)
     IN  IF loaded.error # ""
         THEN /\ pc' = "failed"
              /\ raised' = loaded.error
              /\ UNCHANGED <<schedule, slack_user_mapping, slack_user_group_id>>
         ELSE /\ pc' = "ready"
              /\ raised' = ""
              /\ schedule' = loaded.schedule
              /\ slack_user_mapping' = load_slack_user_mapping(env.SLACK_USER_MAPPING)
              /\ slack_user_group_id' = env.SLACK_USER_GROUP_ID
  /\ UNCHANGED <<input_vars, slack_client, slack_channel, target_date, schedule_data,
                 logged, slack_vars>>

\* notifier.get_schedule_for_date(target_date), the target off days from the
\* schedule's first week_start, at hour h.
GetScheduleForDate(off, h) ==
  /\ pc = "ready"
  /\ LET target == [ord |-> schedule[1].week_start.ord + off, hour |-> h]
     IN  /\ target_date' = target
         /\ schedule_data' = get_schedule_for_date(schedule, target)
  /\ raised' = ""
  /\ UNCHANGED <<pc, input_vars, object_vars, logged, slack_vars>>

\* ScheduleNotifier.new_slack_client(token, channel); "" is a missing argument.
NewSlackClient(token_arg, channel_arg) ==
  /\ pc = "ready"
  /\ LET token == IF token_arg = "" THEN env.SLACK_TOKEN ELSE token_arg
         channel == IF channel_arg = "" THEN env.SLACK_CHANNEL ELSE channel_arg
     IN  IF token = "" /\ ~dry_run
         THEN /\ raised' = "ValueError: SLACK_TOKEN environment variable is not set"
              /\ UNCHANGED <<slack_client, slack_channel>>
         ELSE IF channel = ""
         THEN /\ raised' = "ValueError: SLACK_CHANNEL environment variable is not set"
              /\ UNCHANGED <<slack_client, slack_channel>>
         ELSE IF DOMAIN slack_user_mapping = {}
         THEN /\ raised' = "ValueError: SLACK_USER_MAPPING environment variable is not set"
              /\ UNCHANGED <<slack_client, slack_channel>>
         ELSE /\ raised' = ""
              /\ slack_channel' = channel
              /\ slack_client' = IF token # "" THEN "WebClient" ELSE NoClient
  /\ UNCHANGED <<pc, input_vars, schedule, slack_user_mapping, slack_user_group_id,
                 target_date, schedule_data, logged, slack_vars>>

\* ScheduleNotifier.send_schedule_notification(schedule_data, target_date);
\* api_ok: whether Slack accepts the call (else SlackApiError).
SendScheduleNotification(api_ok) ==
  /\ pc = "ready"
  /\ schedule_data # None
  /\ LET message ==
           [channel |-> slack_channel,
            week_date |-> target_date.ord,
            release_artistry |->
              format_people_list(slack_user_mapping, schedule_data.release_artistry),
            focused_work |->
              format_people_list(slack_user_mapping, schedule_data.focused_work)]
     IN  IF dry_run /\ slack_channel = NoAttr
         THEN /\ raised' = "AttributeError"
              /\ UNCHANGED <<logged, slack_calls, posted>>
         ELSE IF dry_run
         THEN /\ raised' = ""
              /\ logged' = logged \cup {"[DRY RUN] Would send"}
              /\ UNCHANGED <<slack_calls, posted>>
         ELSE IF slack_client = NoClient
         THEN /\ raised' = "AttributeError"
              /\ UNCHANGED <<logged, slack_calls, posted>>
         ELSE /\ slack_calls' = slack_calls \cup {"chat_postMessage"}
              /\ posted' = message
              /\ raised' = IF api_ok THEN "" ELSE "SlackApiError"
              /\ logged' = IF api_ok THEN logged \cup {"Slack message sent successfully"}
                                     ELSE logged \cup {"Failed to send Slack message"}
  /\ UNCHANGED <<pc, input_vars, object_vars, target_date, schedule_data, group,
                 update_req>>

\* ScheduleNotifier._update_user_group(schedule_data["release_artistry"]);
\* list_ok, update_ok: whether Slack accepts the two calls.
UpdateUserGroup(list_ok, update_ok) ==
  /\ pc = "ready"
  /\ schedule_data # None
  /\ LET names == schedule_data.release_artistry
         \* _get_user_group_members: [] without a client
         fetch == slack_client # NoClient
         current_members == IF fetch THEN group ELSE {}
         members == new_members(current_members, slack_user_mapping, names)
         listed == IF fetch THEN slack_calls \cup {"usergroups_users_list"}
                   ELSE slack_calls
     IN  IF slack_user_group_id = ""
         THEN /\ raised' = ""
              /\ logged' = logged \cup {"No SLACK_USER_GROUP_ID configured"}
              /\ UNCHANGED <<group, slack_calls, update_req>>
         ELSE IF fetch /\ ~list_ok
         THEN /\ raised' = "SlackApiError"
              /\ logged' = logged \cup {"Failed to get user group members"}
              /\ slack_calls' = listed
              /\ UNCHANGED <<group, update_req>>
         ELSE IF update_returns_early(dry_run, current_members, members)
         THEN /\ raised' = ""
              /\ logged' = logged \cup
                   {IF dry_run THEN "[DRY RUN] Would update user group"
                               ELSE "User group is already up to date"}
              /\ slack_calls' = listed
              /\ UNCHANGED <<group, update_req>>
         ELSE IF slack_client = NoClient
         THEN /\ raised' = "AttributeError"
              /\ slack_calls' = listed
              /\ UNCHANGED <<logged, group, update_req>>
         ELSE /\ slack_calls' = listed \cup {"usergroups_users_update"}
              /\ update_req' = [usergroup |-> slack_user_group_id,
                                users |-> members,
                                current |-> current_members,
                                names |-> names]
              /\ group' = IF update_ok THEN members ELSE group
              /\ raised' = IF update_ok THEN "" ELSE "SlackApiError"
              /\ logged' = IF update_ok THEN logged \cup {"User group updated successfully"}
                                        ELSE logged \cup {"Failed to update user group"}
  /\ UNCHANGED <<pc, input_vars, object_vars, target_date, schedule_data, posted>>

Offsets == (0 - MaxOff)..MaxOff

\* main: the notifier is constructed and asked once, for any target date
\* near the first week_start or for the date of any row of the table.
Next ==
  \/ Construct
  \/ /\ schedule_data = None
     /\ \E off \in Offsets, h \in TargetHours : GetScheduleForDate(off, h)
  \/ /\ schedule_data = None
     /\ \E i \in 1..Len(schedule) :
          GetScheduleForDate(schedule[i].week_start.ord - schedule[1].week_start.ord, 0)

Spec == Init /\ [][Next]_vars

\* main's --notify-slack path, its calls in any order and number.
NextSlack ==
  \/ Construct
  \/ \E off \in {0, 7} : GetScheduleForDate(off, 0)
  \/ \E token_arg \in {"", "xoxb"}, channel_arg \in {"", "#art-release"} :
       NewSlackClient(token_arg, channel_arg)
  \/ \E api_ok \in BOOLEAN : SendScheduleNotification(api_ok)
  \/ \E list_ok, update_ok \in BOOLEAN : UpdateUserGroup(list_ok, update_ok)

SpecSlack == InitSlack /\ [][NextSlack]_vars

\* ================================================================= claims

\* The lines the constructor was given, whichever way.
InputLines ==
  IF source.content # <<>> THEN source.content
  ELSE IF source.file # None THEN source.file.lines ELSE <<>>

\* A source text was there to read (an inline text, or a file that exists).
SourceRead ==
  source.content # <<>> \/ (source.file # None /\ source.file.exists)

Queried == pc = "ready" /\ schedule_data # None
Anchor == schedule[1].week_start
CycleLength == Len(schedule)
\* The signed whole-day difference between the target's date and the anchor's.
DayOffset == target_date.ord - Anchor.ord
AddDays(dt, n) == [dt EXCEPT !.ord = @ + n]
Lists(entry) ==
  [release_artistry |-> entry.release_artistry, focused_work |-> entry.focused_work]
\* The days from the first date of the input rows to the last.
TableSpan == ToOrdinal(2026, 3, 2) - ToOrdinal(2026, 2, 9)
\* Weeks and cycles far enough each way for every target of the model.
WeekRange == (0 - (MaxOff \div 7 + 1))..((MaxOff + TableSpan) \div 7 + 1)
\* a and b lie in the same 7-day window counted from the anchor.
SameWindow(a, b) ==
  \E w \in WeekRange : 7 * w <= a /\ a <= 7 * w + 6 /\ 7 * w <= b /\ b <= 7 * w + 6

\* C1: for a loaded schedule of N entries and any target date, before, on or
\* after the anchor, get_schedule_for_date returns the lists of the entry at
\* index floor(day_offset / 7) mod N, an index in 0..N-1.
C1_IndexIsFloorMod ==
  Queried =>
    \E w \in WeekRange :
      /\ 7 * w <= DayOffset /\ DayOffset < 7 * w + 7
      /\ \E i \in 0..(CycleLength - 1) :
           /\ \E m \in WeekRange : w = m * CycleLength + i
           /\ schedule_data = Lists(schedule[i + 1])

\* A date before the anchor, at an hour of the day, resolved to the last of
\* three entries.
C1_Witness ==
  /\ Queried
  /\ CycleLength = 3
  /\ DayOffset = 0 - 1
  /\ target_date.hour # 0
  /\ schedule_data = Lists(schedule[3])
  /\ Lists(schedule[3]) # Lists(schedule[1])

\* C2: periodicity: the result for d is the result for d + k*N*7 days, for
\* every integer k.
C2_Periodicity ==
  Queried =>
    \A k \in (0 - MaxK)..MaxK :
      get_schedule_for_date(schedule, AddDays(target_date, k * CycleLength * 7))
        = schedule_data

\* A date before the anchor whose result is not the first entry's.
C2_Witness ==
  /\ Queried
  /\ CycleLength >= 2
  /\ DayOffset < 0
  /\ schedule_data # Lists(schedule[1])

\* C3: pre-anchor symmetry: the result for A - 7 days is the result for
\* A + (N-1)*7 days, and both are the lists of the last entry.
C3_PreAnchorSymmetry ==
  (Queried /\ target_date = AddDays(Anchor, 0 - 7)) =>
    /\ schedule_data = Lists(schedule[CycleLength])
    /\ get_schedule_for_date(schedule, AddDays(Anchor, (CycleLength - 1) * 7))
         = schedule_data

\* The week before the anchor of a three-entry schedule whose last entry
\* differs from the others.
C3_Witness ==
  /\ Queried
  /\ target_date = AddDays(Anchor, 0 - 7)
  /\ CycleLength = 3
  /\ Lists(schedule[3]) # Lists(schedule[1])
  /\ Lists(schedule[3]) # Lists(schedule[2])

\* C4: within-week stability: two target dates in the same 7-day window
\* counted from the anchor, before it or after, have the same result.
C4_WithinWeekStability ==
  Queried =>
    \A off \in Offsets, h \in TargetHours :
      SameWindow(DayOffset, off) =>
        get_schedule_for_date(schedule, [ord |-> Anchor.ord + off, hour |-> h])
          = schedule_data

\* The last afternoon of the anchor's own week, in a schedule whose next
\* entry differs.
C4_Witness ==
  /\ Queried
  /\ CycleLength >= 2
  /\ DayOffset = 6
  /\ target_date.hour # 0
  /\ Lists(schedule[2]) # Lists(schedule[1])

\* C5: anchor identity: the result for schedule[0].week_start is exactly
\* schedule[0]'s two lists, each in its parsed order.
C5_AnchorIdentity ==
  (Queried /\ target_date = Anchor) =>
    /\ schedule_data.release_artistry = schedule[1].release_artistry
    /\ schedule_data.focused_work = schedule[1].focused_work

\* The anchor asked for, its entry listing two people in one role.
C5_Witness ==
  /\ Queried
  /\ target_date = Anchor
  /\ CycleLength >= 2
  /\ Len(schedule_data.release_artistry) = 2
  /\ schedule_data.release_artistry # schedule_data.focused_work

\* The entries of s with week_start d, in order.
OnDate(s, d) ==
  LET Test(e) == e.week_start = d IN SelectSeq(s, Test)

\* C6: after a successful load the schedule is sorted ascending by
\* week_start, holds every parsed row (rows of one date all kept), and rows
\* of equal week_start keep their source order.
C6_SortedStableComplete ==
  pc = "ready" =>
    LET rows == parse_lines(InputLines)
    IN  /\ Len(schedule) = Len(rows)
        /\ \A i \in 1..(Len(schedule) - 1) :
             Hours(schedule[i].week_start) <= Hours(schedule[i + 1].week_start)
        /\ \A i \in 1..Len(rows) :
             OnDate(schedule, rows[i].week_start) = OnDate(rows, rows[i].week_start)

\* Three rows out of date order, two of them of one date and different teams.
C6_Witness ==
  /\ pc = "ready"
  /\ InputLines = <<RowFeb16, RowFeb9Again, RowFeb9>>
  /\ Len(schedule) = 3
  /\ schedule[1].release_artistry = <<Joep>>
  /\ schedule[2].release_artistry = <<Fabio, Luis>>

\* The number of lines of t that are in the set S.
CountIn(t, S) == Cardinality({i \in 1..Len(t) : t[i] \in S})

\* C7: border lines and the header line produce no entry wherever they
\* stand; a table of only such lines fails with ValueError "No valid schedule
\* entries found", and no notifier is constructed with an empty schedule.
C7_ParserResilience ==
  /\ \A i \in 1..Len(InputLines) :
       InputLines[i] \in Decorations => parse_schedule_line(InputLines[i]) = None
  /\ pc # "new" => Len(schedule) <= Len(InputLines) - CountIn(InputLines, Decorations)
  /\ (pc # "new" /\ SourceRead /\ CountIn(InputLines, Decorations) = Len(InputLines)) =>
       (pc = "failed" /\ raised = "ValueError: No valid schedule entries found")
  /\ pc = "ready" => schedule # <<>>

\* The load of a header between two borders has failed.
C7_Witness ==
  /\ pc = "failed"
  /\ InputLines = <<Separator, Header, BottomBorder>>
  /\ raised = "ValueError: No valid schedule entries found"

\* C8: a row-shaped line whose date token is no calendar date is skipped
\* and does not abort the load: with another line that parses, the load
\* succeeds with exactly the valid rows; it fails only with no entry left.
C8_BadDateSkipped ==
  pc # "new" =>
    LET valid == CountIn(InputLines, DataRows)
    IN  /\ parse_lines(<<RowFeb30>>) = <<>>
        /\ valid > 0 => (pc = "ready" /\ raised = "" /\ Len(schedule) = valid)
        /\ pc = "failed" => valid = 0
        /\ \A i \in 1..Len(schedule) :
             \E j \in 1..Len(InputLines) :
               /\ InputLines[j] \in DataRows
               /\ schedule[i] = parse_schedule_line(InputLines[j])

\* A load that succeeded with the two valid rows around a 'Feb 30' row.
C8_Witness ==
  /\ pc = "ready"
  /\ InputLines = <<RowFeb9, RowFeb30, RowFeb16>>
  /\ Len(schedule) = 2

\* The IDs the mapping gives the names of the sequence names.
MappedIds(names) ==
  {slack_user_mapping[n] :
     n \in {names[i] : i \in 1..Len(names)} \cap DOMAIN slack_user_mapping}
\* Every ID the mapping holds.
ManagedIds == {slack_user_mapping[n] : n \in DOMAIN slack_user_mapping}

\* C9: whenever _update_user_group sends an update, the members it sends
\* are the group's current members without the IDs of the mapping, with the
\* mapped IDs of the names on release-artistry duty: a member outside the
\* mapping stays, an on-duty mapped ID is in, a mapped ID not on duty is out.
C9_GroupReconciliation ==
  [][update_req' # update_req =>
       LET sent == update_req'.users
           on_duty == MappedIds(schedule_data.release_artistry)
       IN  /\ sent = (group \ ManagedIds) \cup on_duty
           /\ \A u \in group \ ManagedIds : u \in sent
           /\ \A u \in on_duty : u \in sent
           /\ \A u \in ManagedIds \ on_duty : u \notin sent]_vars

\* An update that kept the unmanaged member U9, added the on-duty U2 and
\* dropped the off-duty U1, accepted by Slack.
C9_Witness ==
  /\ update_req # None
  /\ update_req.current = {"U1", "U9"}
  /\ update_req.users = {"U2", "U9"}
  /\ group = {"U2", "U9"}
  /\ "User group updated successfully" \in logged

\* C10: a notifier constructed with dry_run = true never performs a Slack
\* write (chat_postMessage, usergroups_users_update), with or without a
\* token, whatever calls are made; at most the group's members are read.
C10_DryRunNoWrites ==
  dry_run =>
    /\ slack_calls \subseteq {"usergroups_users_list"}
    /\ posted = None
    /\ update_req = None

\* A dry run with a token that went through both calls, and read the group.
C10_Witness ==
  /\ dry_run
  /\ slack_client = "WebClient"
  /\ "[DRY RUN] Would send" \in logged
  /\ "[DRY RUN] Would update user group" \in logged
  /\ slack_calls = {"usergroups_users_list"}
  /\ group # {}

\* The claim C11 as it was made: asked for the week_start of any entry, of
\* any parsed table, get_schedule_for_date returns that entry's lists.
C11_EveryEntryOnItsWeekStart ==
  Queried =>
    \A i \in 1..CycleLength :
      target_date = schedule[i].week_start => schedule_data = Lists(schedule[i])

\* C11, amended: an entry is active on its own week_start when that date is
\* as many weeks after the first week_start as the entry has entries before
\* it: asked for schedule[i].week_start = schedule[0].week_start + 7*i days,
\* get_schedule_for_date returns the lists of entry i.
C11_EntryOnItsWeekStartWhenWeekly ==
  Queried =>
    \A i \in 1..CycleLength :
      (/\ target_date = schedule[i].week_start
       /\ schedule[i].week_start = AddDays(Anchor, 7 * (i - 1)))
        => schedule_data = Lists(schedule[i])

\* The second of three entries, a week after the first, asked for on its own
\* week_start in a table whose third row comes two weeks late.
C11_Witness ==
  /\ Queried
  /\ CycleLength = 3
  /\ target_date = schedule[2].week_start
  /\ schedule[2].week_start = AddDays(Anchor, 7)
  /\ schedule[3].week_start = AddDays(Anchor, 21)
  /\ schedule_data = Lists(schedule[2])
  /\ Lists(schedule[2]) # Lists(schedule[1])

\* The symbols of the text s that are neither blanks nor commas, in order.
Words(s) ==
  LET IsWord(c) == c # Blank /\ c # Comma IN SelectSeq(s, IsWord)
CommaCount(s) == Cardinality({i \in 1..Len(s) : s[i] = Comma})
\* The number of word symbols of s before its k-th comma.
WordsBeforeComma(s, k) ==
  LET p == CHOOSE q \in 1..Len(s) :
             s[q] = Comma /\ Cardinality({j \in 1..q : s[j] = Comma}) = k
  IN  Cardinality({i \in 1..p : s[i] # Blank /\ s[i] # Comma})
RECURSIVE Flatten(_)
Flatten(tokens) ==
  IF tokens = <<>> THEN <<>> ELSE Head(tokens) \o Flatten(Tail(tokens))
\* tokens is the text s (of names without inner blanks) cut at its commas
\* and trimmed: one token more than there are commas, the words of s in
\* order, each token holding the words between its two commas.
IsSplitAndTrimmed(tokens, s) ==
  /\ Len(tokens) = CommaCount(s) + 1
  /\ Flatten(tokens) = Words(s)
  /\ \A k \in 1..(Len(tokens) - 1) :
       Len(Flatten(SubSeq(tokens, 1, k))) = WordsBeforeComma(s, k)
\* The two lists of data are the columns of some data row of the input.
ListsOfSomeRow(data) ==
  \E j \in 1..Len(InputLines) :
    /\ InputLines[j] \in DataRows
    /\ IsSplitAndTrimmed(data.release_artistry, InputLines[j].cells[2].chars)
    /\ IsSplitAndTrimmed(data.focused_work, InputLines[j].cells[3].chars)

\* C12: each assignee list of a data row is its column text split on commas,
\* each token trimmed, in source order, none dropped: as many assignees as
\* commas plus one, an empty token kept as an empty name, which
\* get_schedule_for_date later returns.
C12_SplitKeepsEveryToken ==
  /\ pc = "ready" => \A i \in 1..Len(schedule) : ListsOfSomeRow(schedule[i])
  /\ Queried => ListsOfSomeRow(schedule_data)

\* The row "Luis,, Fabio, " returned with its two empty names.
C12_Witness ==
  /\ Queried
  /\ schedule_data.release_artistry = <<Luis, <<>>, Fabio, <<>>>>
  /\ schedule_data.focused_work = <<Joep>>

====
